---- MODULE Spec2Model ----
(***************************************************************************)
(* Model of homework.py: a poller that fetches the review status of a      *)
(* homework from a remote API and reports changes to one Telegram chat.    *)
(*                                                                         *)
(* The Russian string literals of the source are transliterated to ASCII;  *)
(* distinct literals stay distinct.  The message texts are built by string *)
(* concatenation exactly where the source uses f-strings.                  *)
(***************************************************************************)
EXTENDS Integers, Sequences, FiniteSets, TLC

\* ------------------------------------------------------------ bounds ----
\* current_date values carried by a response are 1..MaxDate; the clock at
\* startup reads Now.
MaxDate == 2
\* Python's None (an unset token, last_message before the first send).
None == "None"

\* int(time.time()) at startup.
Now == 0

\* RETRY_PERIOD, seconds slept after every iteration.
RETRY_PERIOD == 600

ENDPOINT == "https://practicum.yandex.ru/api/user_api/homework_statuses/"

\* HOMEWORK_VERDICTS
\*   approved:  'Работа проверена: ревьюеру всё понравилось. Ура!'
\*   reviewing: 'Работа взята на проверку ревьюером.'
\*   rejected:  'Работа проверена: у ревьюера есть замечания.'
HOMEWORK_VERDICTS ==
    [approved  |-> "Rabota proverena: revyueru vsyo ponravilos. Ura!",
     reviewing |-> "Rabota vzyata na proverku revyuerom.",
     rejected  |-> "Rabota proverena: u revyuera est zamechaniya."]

\* ------------------------------------------------- values of the world ---
\* What os.getenv can give for a token: unset, empty, or a value.
TokenValues == {None, "", "token"}

TokenNames == {"PRACTICUM_TOKEN", "TELEGRAM_TOKEN", "TELEGRAM_CHAT_ID"}

\* The status values a record can carry; "pending" stands for every status
\* outside HOMEWORK_VERDICTS.
StatusValues == {"approved", "reviewing", "rejected", "pending"}

\* One element of the homeworks list.  isdict = FALSE is a JSON value that
\* is not an object; an absent key keeps the default "" in its field.
HomeworkRecord(isdict, has_name, name, has_status, status) ==
    [isdict |-> isdict, has_name |-> has_name, homework_name |-> name,
     has_status |-> has_status, status |-> status]

NotADict == HomeworkRecord(FALSE, FALSE, "", FALSE, "")

\* The records tried as homeworks[0].
Records ==
    {NotADict}
    \cup {HomeworkRecord(TRUE, TRUE, "diff1", FALSE, "")}
    \cup {HomeworkRecord(TRUE, FALSE, "", TRUE, "approved")}
    \cup {HomeworkRecord(TRUE, FALSE, "", TRUE, "pending")}
    \cup {HomeworkRecord(TRUE, TRUE, "diff1", TRUE, s) : s \in StatusValues}
    \cup {HomeworkRecord(TRUE, TRUE, "diff2", TRUE, "approved")}

\* The records tried behind homeworks[0], and the first records they are
\* tried behind.
Tails ==
    {<<NotADict>>,
     <<HomeworkRecord(TRUE, TRUE, "diff2", TRUE, "pending")>>,
     <<HomeworkRecord(TRUE, TRUE, "diff2", TRUE, "rejected"), NotADict>>}

TailHeads ==
    {NotADict,
     HomeworkRecord(TRUE, TRUE, "diff1", TRUE, "approved"),
     HomeworkRecord(TRUE, TRUE, "diff1", TRUE, "pending")}

HomeworkLists ==
    {<<>>}
    \cup {<<r>> : r \in Records}
    \cup {<<r>> \o t : r \in TailHeads, t \in Tails}

\* A decoded JSON body.  t = "list" is a body that is not an object (the
\* body []); t = "none" is the unset variable, never a body.
Body(t, has_hw, hw_islist, hw, has_cd, cd) ==
    [t |-> t, has_homeworks |-> has_hw, homeworks_islist |-> hw_islist,
     homeworks |-> hw, has_current_date |-> has_cd, current_date |-> cd]

NoBody == Body("none", FALSE, FALSE, <<>>, FALSE, 0)

Dates == {<<FALSE, 0>>} \cup {<<TRUE, d>> : d \in 1..MaxDate}

Bodies ==
    {Body("list", FALSE, FALSE, <<>>, FALSE, 0)}
    \cup {Body("dict", FALSE, FALSE, <<>>, d[1], d[2]) : d \in Dates}
    \cup {Body("dict", TRUE, FALSE, <<>>, d[1], d[2]) : d \in Dates}
    \cup {Body("dict", TRUE, TRUE, h, d[1], d[2]) : h \in HomeworkLists, d \in Dates}

\* What requests.get can do: raise a RequestException, or return a response
\* with a status code and a body that decodes as JSON or does not.
StatusCodes == {200, 201, 503}

CodeStr == [c \in StatusCodes |->
              CASE c = 200 -> "200" [] c = 201 -> "201" [] c = 503 -> "503"]

TransportErrors == {"timed out"}

Reply(kind, text, code, decodable, body) ==
    [kind |-> kind, text |-> text, status_code |-> code,
     decodable |-> decodable, body |-> body]

\* No request sent yet in this iteration.
NoRequest == -1

NoReply == Reply("none", "", 200, FALSE, NoBody)

\* The bodies tried with a status code other than 200.
OtherCodeBodies ==
    {Body("dict", TRUE, TRUE, <<HomeworkRecord(TRUE, TRUE, "diff1", TRUE, "approved")>>,
          TRUE, 1)}

Replies ==
    {Reply("RequestException", e, 200, FALSE, NoBody) : e \in TransportErrors}
    \cup {Reply("response", "", c, FALSE, NoBody) : c \in StatusCodes}
    \cup {Reply("response", "", 200, TRUE, b) : b \in Bodies}
    \cup {Reply("response", "", c, TRUE, b) : c \in StatusCodes \ {200}, b \in OtherCodeBodies}

\* What bot.send_message can do: deliver the text, or raise an ApiException,
\* a requests.RequestException, or an exception of another class.
SendOutcomes == {"ok", "ApiException", "RequestException", "Exception"}

\* ------------------------------------------------------------ results ---
\* A call either returns a value or raises an exception of class exc whose
\* str() is error.
Ok(v) == [raised |-> FALSE, exc |-> "", error |-> "", value |-> v]
Raise(exc, text) == [raised |-> TRUE, exc |-> exc, error |-> text, value |-> None]

\* str(KeyError(text)) is repr(text): the text in quotes.
KeyErrorStr(text) == "'" \o text \o "'"

\* ---------------------------------------------------------- functions ---
\* `not token`: an unset and an empty token are both missing.
Missing(token) == token = None \/ token = ""

\* Mutant of check_tokens: `token is None` in place of `not token`, so an
\* empty token counts as present.
check_tokens_OnlyUnset(tokens) ==
    \A name \in TokenNames : tokens[name] # None

\* check_tokens(): True iff no token is missing.
check_tokens(tokens) ==
    LET missing_tokens == {name \in TokenNames : Missing(tokens[name])}
    IN  missing_tokens = {}

\* send_message(bot, message): bot.send_message inside a try that catches
\* ApiException and requests.RequestException (logged, the function then
\* returns None); an exception of another class leaves the function.
send_message(message, outcome) ==
    CASE outcome = "ok" -> Ok(None)
      [] outcome = "ApiException" -> Ok(None)
      [] outcome = "RequestException" -> Ok(None)
      [] OTHER -> Raise(outcome, "send failed: " \o outcome)

\* Mutant of get_api_answer: every 2xx status code is accepted.
get_api_answer_Accepts2xx(timestamp, reply) ==
    IF reply.kind = "RequestException"
    THEN Raise("RuntimeError", "Oshibka pri zaprose k API: " \o reply.text)
    ELSE IF reply.status_code \notin 200..299
    THEN Raise("RuntimeError",
               "Endpoint " \o ENDPOINT \o " vernul kod " \o CodeStr[reply.status_code])
    ELSE IF ~reply.decodable
    THEN Raise("JSONDecodeError", "Expecting value: line 1 column 1 (char 0)")
    ELSE Ok(reply.body)

\* get_api_answer(timestamp): one GET with from_date = timestamp.
\*   'Ошибка при запросе к API: {error}'
\*   'Эндпоинт {ENDPOINT} вернул код {response.status_code}'
\* response.json() raises on a body that is not JSON.
get_api_answer(timestamp, reply) ==
    IF reply.kind = "RequestException"
    THEN Raise("RuntimeError", "Oshibka pri zaprose k API: " \o reply.text)
    ELSE IF reply.status_code # 200
    THEN Raise("RuntimeError",
               "Endpoint " \o ENDPOINT \o " vernul kod " \o CodeStr[reply.status_code])
    ELSE IF ~reply.decodable
    THEN Raise("JSONDecodeError", "Expecting value: line 1 column 1 (char 0)")
    ELSE Ok(reply.body)

\* Mutant of check_response: the key is looked for before the type of the
\* payload is tested.
check_response_KeyFirst(response) ==
    IF ~response.has_homeworks
    THEN Raise("KeyError", KeyErrorStr("Klyuch \"homeworks\" otsutstvuet v otvete API"))
    ELSE IF response.t # "dict"
    THEN Raise("TypeError", "Otvet API ne yavlyaetsya slovarem")
    ELSE IF ~response.homeworks_islist
    THEN Raise("TypeError", "Otvet API po klyuchu \"homeworks\" ne yavlyaetsya spiskom")
    ELSE Ok(response.homeworks)

\* check_response(response)
\*   'Ответ API не является словарем'
\*   'Ключ "homeworks" отсутствует в ответе API'
\*   'Ответ API по ключу "homeworks" не является списком'
check_response(response) ==
    IF response.t # "dict"
    THEN Raise("TypeError", "Otvet API ne yavlyaetsya slovarem")
    ELSE IF ~response.has_homeworks
    THEN Raise("KeyError", KeyErrorStr("Klyuch \"homeworks\" otsutstvuet v otvete API"))
    ELSE IF ~response.homeworks_islist
    THEN Raise("TypeError", "Otvet API po klyuchu \"homeworks\" ne yavlyaetsya spiskom")
    ELSE Ok(response.homeworks)

\* Mutant of parse_status: the status code is printed where the verdict
\* belongs.
parse_status_PrintsStatus(homework) ==
    IF ~homework.isdict
    THEN Raise("TypeError", "Domashnyaya rabota ne yavlyaetsya slovarem")
    ELSE IF ~homework.has_name
    THEN Raise("KeyError", KeyErrorStr("Klyuch \"homework_name\" otsutstvuet v otvete API"))
    ELSE IF ~homework.has_status
    THEN Raise("KeyError", KeyErrorStr("Klyuch \"status\" otsutstvuet v otvete API"))
    ELSE IF homework.status \notin DOMAIN HOMEWORK_VERDICTS
    THEN Raise("ValueError", "Neizvestnyi status domashnei raboty: " \o homework.status)
    ELSE Ok("Izmenilsya status proverki raboty \"" \o homework.homework_name
            \o "\". " \o homework.status)

\* Mutant of parse_status: HOMEWORK_VERDICTS.get(status, status), so a status
\* outside the catalog is formatted instead of refused.
parse_status_ToleratesUnknown(homework) ==
    IF ~homework.isdict
    THEN Raise("TypeError", "Domashnyaya rabota ne yavlyaetsya slovarem")
    ELSE IF ~homework.has_name
    THEN Raise("KeyError", KeyErrorStr("Klyuch \"homework_name\" otsutstvuet v otvete API"))
    ELSE IF ~homework.has_status
    THEN Raise("KeyError", KeyErrorStr("Klyuch \"status\" otsutstvuet v otvete API"))
    ELSE Ok("Izmenilsya status proverki raboty \"" \o homework.homework_name
            \o "\". "
            \o (IF homework.status \in DOMAIN HOMEWORK_VERDICTS
                THEN HOMEWORK_VERDICTS[homework.status] ELSE homework.status))

\* parse_status(homework)
\*   'Домашняя работа не является словарем'
\*   'Ключ "homework_name" отсутствует в ответе API'
\*   'Ключ "status" отсутствует в ответе API'
\*   'Неизвестный статус домашней работы: {status}'
\*   'Изменился статус проверки работы "{homework_name}". {verdict}'
parse_status(homework) ==
    IF ~homework.isdict
    THEN Raise("TypeError", "Domashnyaya rabota ne yavlyaetsya slovarem")
    ELSE IF ~homework.has_name
    THEN Raise("KeyError", KeyErrorStr("Klyuch \"homework_name\" otsutstvuet v otvete API"))
    ELSE IF ~homework.has_status
    THEN Raise("KeyError", KeyErrorStr("Klyuch \"status\" otsutstvuet v otvete API"))
    ELSE LET homework_name == homework.homework_name
             status == homework.status
         IN  IF status \notin DOMAIN HOMEWORK_VERDICTS
             THEN Raise("ValueError", "Neizvestnyi status domashnei raboty: " \o status)
             ELSE LET verdict == HOMEWORK_VERDICTS[status]
                  IN  Ok("Izmenilsya status proverki raboty \"" \o homework_name
                         \o "\". " \o verdict)

\* f'Сбой в работе программы: {error}'
FailureMessage(error) == "Sboi v rabote programmy: " \o error

\* Mutant of GetCurrentDate: the fallback is returned even when the key is
\* there.
GetCurrentDate_KeepsDefault(response, default) == default

\* response.get('current_date', timestamp)
GetCurrentDate(response, default) ==
    IF response.has_current_date THEN response.current_date ELSE default

\* -------------------------------------------------------------- state ---
VARIABLES
    env,           \* the three tokens read from the environment at import
    pc,            \* where main is
    timestamp,     \* main's timestamp (from_date of the next request)
    last_message,  \* main's last_message
    response,      \* main's response, NoBody while unset
    homeworks,     \* main's homeworks
    message,       \* main's message, the text rendered last
    error,         \* the exception being handled by main's except clause
    \* history, written by the model only
    reply,         \* what the API did in the current iteration
    from_date,     \* the from_date parameter of the current iteration's
                   \* request, NoRequest before it is sent
    ts0,           \* timestamp when the current iteration began
    last0,         \* last_message when the current iteration began
    rendered,      \* the texts rendered in the current iteration, in order
    calls,         \* the texts passed to send_message in the current iteration
    outcomes,      \* what bot.send_message did on each of those calls
    raisedAt,      \* the steps of the current iteration that raised, in order
    delivered,     \* the text of the last message the chat received
    prevRendered,  \* rendered of the iteration before
    prevCalls,     \* calls of the iteration before
    fetched,       \* a request has been sent since startup
    slept,         \* the sleeps since the last request, in seconds
    called,        \* send_message has been called since startup
    returned       \* the text of the last send_message call that returned

prog == <<env, pc, timestamp, last_message, response, homeworks, message, error>>
hist == <<reply, from_date, ts0, last0, rendered, calls, outcomes, raisedAt,
          delivered, prevRendered, prevCalls, fetched, slept, called, returned>>
vars == <<prog, hist>>

Init ==
    /\ env \in [TokenNames -> TokenValues]
    /\ pc = "start"
    /\ timestamp = Now
    /\ last_message = None
    /\ response = NoBody
    /\ homeworks = <<>>
    /\ message = None
    /\ error = None
    /\ reply = NoReply
    /\ from_date = NoRequest
    /\ ts0 = Now
    /\ last0 = None
    /\ rendered = <<>>
    /\ calls = <<>>
    /\ outcomes = <<>>
    /\ raisedAt = <<>>
    /\ delivered = None
    /\ prevRendered = <<>>
    /\ prevCalls = <<>>
    /\ fetched = FALSE
    /\ slept = <<>>
    /\ called = FALSE
    /\ returned = None

\* ------------------------------------------------------------ actions ---
\* main, lines 123-128: leave at once when a token is missing, else build
\* the bot, read the clock and enter the loop.
Startup ==
    /\ pc = "start"
    /\ IF ~check_tokens(env)
       THEN /\ pc' = "exited"
            /\ UNCHANGED <<timestamp, last_message>>
       ELSE /\ pc' = "fetch"
            /\ timestamp' = Now
            /\ last_message' = None
    /\ UNCHANGED <<env, response, homeworks, message, error, hist>>

\* line 132: response = get_api_answer(timestamp)
Fetch ==
    /\ pc = "fetch"
    /\ \E r \in Replies :
         LET res == get_api_answer(timestamp, r)
         IN  /\ reply' = r
             /\ from_date' = timestamp
             /\ IF res.raised
                THEN /\ error' = res.error
                     /\ raisedAt' = Append(raisedAt, "fetch")
                     /\ pc' = "except"
                     /\ UNCHANGED response
                ELSE /\ response' = res.value
                     /\ pc' = "validate"
                     /\ UNCHANGED <<error, raisedAt>>
    /\ fetched' = TRUE
    /\ slept' = <<>>
    /\ UNCHANGED <<env, timestamp, last_message, homeworks, message,
                   ts0, last0, rendered, calls, outcomes, delivered,
                   prevRendered, prevCalls,
                   called, returned>>

\* Mutant of Validate: timestamp is advanced as soon as the response is
\* valid, before the list is looked at.
Validate_AdvancesFirst ==
    /\ pc = "validate"
    /\ LET res == check_response(response)
       IN  IF res.raised
           THEN /\ error' = res.error
                /\ raisedAt' = Append(raisedAt, "validate")
                /\ pc' = "except"
                /\ UNCHANGED <<homeworks, timestamp>>
           ELSE /\ homeworks' = res.value
                /\ timestamp' = GetCurrentDate(response, timestamp)
                /\ pc' = IF res.value # <<>> THEN "format" ELSE "sleep"
                /\ UNCHANGED <<error, raisedAt>>
    /\ UNCHANGED <<env, last_message, response, message,
                   reply, from_date, ts0, last0, rendered, calls, outcomes,
                   delivered, prevRendered, prevCalls,
                   fetched, slept, called, returned>>

\* lines 133-134 and 140-141: homeworks = check_response(response); an
\* empty list ends the iteration with a debug line.
Validate ==
    /\ pc = "validate"
    /\ LET res == check_response(response)
       IN  IF res.raised
           THEN /\ error' = res.error
                /\ raisedAt' = Append(raisedAt, "validate")
                /\ pc' = "except"
                /\ UNCHANGED homeworks
           ELSE /\ homeworks' = res.value
                /\ pc' = IF res.value # <<>> THEN "format" ELSE "sleep"
                /\ UNCHANGED <<error, raisedAt>>
    /\ UNCHANGED <<env, timestamp, last_message, response, message,
                   reply, from_date, ts0, last0, rendered, calls, outcomes,
                   delivered, prevRendered, prevCalls,
                   fetched, slept, called, returned>>

\* Mutant of Format: a `continue` on an unchanged message, so the next
\* iteration begins without the sleep.
Format_ContinuesOnDedup ==
    /\ pc = "format"
    /\ LET res == parse_status(homeworks[1])
       IN  IF res.raised
           THEN /\ error' = res.error
                /\ raisedAt' = Append(raisedAt, "format")
                /\ pc' = "except"
                /\ UNCHANGED <<message, rendered, response, homeworks, reply,
                               from_date, ts0, last0, prevRendered, prevCalls,
                               calls, outcomes>>
           ELSE IF res.value # last_message
           THEN /\ message' = res.value
                /\ rendered' = Append(rendered, res.value)
                /\ pc' = "notify"
                /\ UNCHANGED <<error, raisedAt, response, homeworks, reply,
                               from_date, ts0, last0, prevRendered, prevCalls,
                               calls, outcomes>>
           ELSE /\ pc' = "fetch"
                /\ response' = NoBody
                /\ homeworks' = <<>>
                /\ message' = None
                /\ error' = None
                /\ reply' = NoReply
                /\ from_date' = NoRequest
                /\ ts0' = timestamp
                /\ last0' = last_message
                /\ prevRendered' = Append(rendered, res.value)
                /\ prevCalls' = calls
                /\ rendered' = <<>>
                /\ calls' = <<>>
                /\ outcomes' = <<>>
                /\ raisedAt' = <<>>
    /\ UNCHANGED <<env, timestamp, last_message, delivered,
                   fetched, slept, called, returned>>

\* Mutant of Format: homeworks[-1] in place of homeworks[0].
Format_UsesLastRecord ==
    /\ pc = "format"
    /\ LET res == parse_status(homeworks[Len(homeworks)])
       IN  IF res.raised
           THEN /\ error' = res.error
                /\ raisedAt' = Append(raisedAt, "format")
                /\ pc' = "except"
                /\ UNCHANGED <<message, rendered>>
           ELSE /\ message' = res.value
                /\ rendered' = Append(rendered, res.value)
                /\ pc' = IF res.value # last_message THEN "notify" ELSE "sleep"
                /\ UNCHANGED <<error, raisedAt>>
    /\ UNCHANGED <<env, timestamp, last_message, response, homeworks,
                   reply, from_date, ts0, last0, calls, outcomes,
                   delivered, prevRendered, prevCalls,
                   fetched, slept, called, returned>>

\* Mutant of Format: timestamp is advanced on an unchanged message too.
Format_AdvancesOnDedup ==
    /\ pc = "format"
    /\ LET res == parse_status(homeworks[1])
       IN  IF res.raised
           THEN /\ error' = res.error
                /\ raisedAt' = Append(raisedAt, "format")
                /\ pc' = "except"
                /\ UNCHANGED <<message, rendered, timestamp>>
           ELSE /\ message' = res.value
                /\ rendered' = Append(rendered, res.value)
                /\ pc' = IF res.value # last_message THEN "notify" ELSE "sleep"
                /\ timestamp' = IF res.value # last_message THEN timestamp
                                 ELSE GetCurrentDate(response, timestamp)
                /\ UNCHANGED <<error, raisedAt>>
    /\ UNCHANGED <<env, last_message, response, homeworks,
                   reply, from_date, ts0, last0, calls, outcomes,
                   delivered, prevRendered, prevCalls,
                   fetched, slept, called, returned>>

\* Mutant of Format: the message is sent without the comparison with
\* last_message.
Format_NoDedup ==
    /\ pc = "format"
    /\ LET res == parse_status(homeworks[1])
       IN  IF res.raised
           THEN /\ error' = res.error
                /\ raisedAt' = Append(raisedAt, "format")
                /\ pc' = "except"
                /\ UNCHANGED <<message, rendered>>
           ELSE /\ message' = res.value
                /\ rendered' = Append(rendered, res.value)
                /\ pc' = "notify"
                /\ UNCHANGED <<error, raisedAt>>
    /\ UNCHANGED <<env, timestamp, last_message, response, homeworks,
                   reply, from_date, ts0, last0, calls, outcomes,
                   delivered, prevRendered, prevCalls,
                   fetched, slept, called, returned>>

\* lines 135-136: message = parse_status(homeworks[0]), then the comparison
\* with last_message.
Format ==
    /\ pc = "format"
    /\ LET res == parse_status(homeworks[1])
       IN  IF res.raised
           THEN /\ error' = res.error
                /\ raisedAt' = Append(raisedAt, "format")
                /\ pc' = "except"
                /\ UNCHANGED <<message, rendered>>
           ELSE /\ message' = res.value
                /\ rendered' = Append(rendered, res.value)
                /\ pc' = IF res.value # last_message THEN "notify" ELSE "sleep"
                /\ UNCHANGED <<error, raisedAt>>
    /\ UNCHANGED <<env, timestamp, last_message, response, homeworks,
                   reply, from_date, ts0, last0, calls, outcomes,
                   delivered, prevRendered, prevCalls,
                   fetched, slept, called, returned>>

\* lines 137-139: send_message(bot, message); last_message = message;
\* timestamp = response.get('current_date', timestamp).  An exception that
\* leaves send_message skips both assignments and reaches main's except.
NotifyStatus ==
    /\ pc = "notify"
    /\ \E o \in SendOutcomes :
         LET res == send_message(message, o)
         IN  /\ calls' = Append(calls, message)
             /\ outcomes' = Append(outcomes, o)
             /\ delivered' = IF o = "ok" THEN message ELSE delivered
             /\ called' = TRUE
             /\ returned' = IF res.raised THEN returned ELSE message
             /\ IF res.raised
                THEN /\ error' = res.error
                     /\ raisedAt' = Append(raisedAt, "notify")
                     /\ pc' = "except"
                     /\ UNCHANGED <<last_message, timestamp>>
                ELSE /\ last_message' = message
                     /\ timestamp' = GetCurrentDate(response, timestamp)
                     /\ pc' = "sleep"
                     /\ UNCHANGED <<error, raisedAt>>
    /\ UNCHANGED <<env, response, homeworks, message,
                   reply, from_date, ts0, last0, rendered,
                   prevRendered, prevCalls,
                   fetched, slept>>

\* Mutant of Except: the failure message is sent without the comparison
\* with last_message.
Except_NoDedup ==
    /\ pc = "except"
    /\ message' = FailureMessage(error)
    /\ rendered' = Append(rendered, FailureMessage(error))
    /\ pc' = "notify_failure"
    /\ UNCHANGED <<env, timestamp, last_message, response, homeworks, error,
                   reply, from_date, ts0, last0, calls, outcomes, raisedAt,
                   delivered, prevRendered, prevCalls,
                   fetched, slept, called, returned>>

\* lines 142-145: except Exception as error: render the failure message,
\* log it, compare it with last_message.
Except ==
    /\ pc = "except"
    /\ message' = FailureMessage(error)
    /\ rendered' = Append(rendered, FailureMessage(error))
    /\ pc' = IF FailureMessage(error) # last_message THEN "notify_failure" ELSE "sleep"
    /\ UNCHANGED <<env, timestamp, last_message, response, homeworks, error,
                   reply, from_date, ts0, last0, calls, outcomes, raisedAt,
                   delivered, prevRendered, prevCalls,
                   fetched, slept, called, returned>>

\* Mutant of NotifyFailure: the failure message is sent but not recorded in
\* last_message.
NotifyFailure_NotRecorded ==
    /\ pc = "notify_failure"
    /\ \E o \in SendOutcomes :
         LET res == send_message(message, o)
         IN  /\ calls' = Append(calls, message)
             /\ outcomes' = Append(outcomes, o)
             /\ delivered' = IF o = "ok" THEN message ELSE delivered
             /\ called' = TRUE
             /\ returned' = IF res.raised THEN returned ELSE message
             /\ IF ~res.raised
                THEN /\ pc' = "sleep"
                     /\ UNCHANGED raisedAt
                ELSE /\ raisedAt' = Append(raisedAt, "notify_failure")
                     /\ pc' = IF res.exc = "ApiException" THEN "sleep" ELSE "crashed"
    /\ UNCHANGED <<env, timestamp, last_message, response, homeworks, message,
                   error, reply, from_date, ts0, last0, rendered,
                   prevRendered, prevCalls,
                   fetched, slept>>

\* lines 146-152: send_message(bot, message); last_message = message, inside
\* a try that catches ApiException only: an ApiException is logged, any
\* other exception leaves main.
NotifyFailure ==
    /\ pc = "notify_failure"
    /\ \E o \in SendOutcomes :
         LET res == send_message(message, o)
         IN  /\ calls' = Append(calls, message)
             /\ outcomes' = Append(outcomes, o)
             /\ delivered' = IF o = "ok" THEN message ELSE delivered
             /\ called' = TRUE
             /\ returned' = IF res.raised THEN returned ELSE message
             /\ IF ~res.raised
                THEN /\ last_message' = message
                     /\ pc' = "sleep"
                     /\ UNCHANGED raisedAt
                ELSE /\ raisedAt' = Append(raisedAt, "notify_failure")
                     /\ pc' = IF res.exc = "ApiException" THEN "sleep" ELSE "crashed"
                     /\ UNCHANGED last_message
    /\ UNCHANGED <<env, timestamp, response, homeworks, message, error,
                   reply, from_date, ts0, last0, rendered,
                   prevRendered, prevCalls,
                   fetched, slept>>

\* line 153: time.sleep(RETRY_PERIOD), then the next iteration.  The locals
\* of the finished iteration are dead (each is assigned before it is read
\* again), so they go back to unset; the history of the iteration moves to
\* prevRendered and prevCalls.
Sleep ==
    /\ pc = "sleep"
    /\ pc' = "fetch"
    /\ response' = NoBody
    /\ homeworks' = <<>>
    /\ message' = None
    /\ error' = None
    /\ reply' = NoReply
    /\ from_date' = NoRequest
    /\ ts0' = timestamp
    /\ last0' = last_message
    /\ prevRendered' = rendered
    /\ prevCalls' = calls
    /\ rendered' = <<>>
    /\ calls' = <<>>
    /\ outcomes' = <<>>
    /\ raisedAt' = <<>>
    /\ slept' = Append(slept, RETRY_PERIOD)
    /\ UNCHANGED <<env, timestamp, last_message, delivered,
                   fetched, called, returned>>

Next ==
    \/ Startup
    \/ Fetch
    \/ Validate
    \/ Format
    \/ NotifyStatus
    \/ Except
    \/ NotifyFailure
    \/ Sleep

Spec == Init /\ [][Next]_vars

\* ------------------------------------------------------------ helpers ---
Range(s) == {s[i] : i \in 1..Len(s)}

\* How many of the calls in s carried the text m.
Count(m, s) == Cardinality({i \in 1..Len(s) : s[i] = m})

\* The current iteration is over: main is at time.sleep or has been left by
\* an exception.
IterationOver == pc \in {"sleep", "crashed"}

\* An exception reached main's except clause in the current iteration.
Caught == raisedAt # <<>>

\* The current iteration received a response that check_response accepts.
ValidResponse == response.t # "none" /\ ~check_response(response).raised

\* The current iteration formatted homeworks[0] into a status message.
FormattedOk ==
    /\ ValidResponse
    /\ response.homeworks # <<>>
    /\ ~parse_status(response.homeworks[1]).raised
    /\ pc \notin {"validate", "format"}

\* ------------------------------------------------------------- claims ---
\* C1: in every state of the poll loop last_message is the text of the last
\* message the chat actually received, or is unset when none was received;
\* a failed delivery does not record the undelivered text.
C1_LastMessageIsLastDelivered == last_message = delivered

\* C2: over consecutive iterations that render the same message send_message
\* is invoked at most once, and not at all when the message already equals
\* last_message at the start.
C2_DedupOverRun ==
    /\ \A m \in Range(rendered) \cap Range(prevRendered) :
          Count(m, prevCalls) + Count(m, calls) <= 1
    /\ \A m \in Range(rendered) : m = last0 => Count(m, calls) = 0

\* C3: timestamp moves to current_date only in an iteration whose status
\* message was delivered; after a failed delivery it keeps its value.
C3_TimestampAdvancesOnlyOnDelivery ==
    (timestamp # ts0) => (outcomes # <<>> /\ outcomes[1] = "ok")

\* C4: an error raised while fetching, validating or formatting never ends
\* the loop: the iteration reaches the sleep.
C4_StageErrorsKeepLoopAlive ==
    (Caught /\ raisedAt[1] \in {"fetch", "validate", "format"}) => pc # "crashed"

\* C5: no delivery failure leaves send_message, on the status path or in the
\* except branch, and none ends the loop.
C5_DeliveryFailureContained ==
    /\ Range(raisedAt) \cap {"notify", "notify_failure"} = {}
    /\ pc # "crashed"

\* C6: an iteration whose validated response has an empty homeworks list
\* calls send_message never and leaves timestamp and last_message as they
\* were, whatever current_date the response carries.
C6_EmptyHomeworksChangesNothing ==
    (ValidResponse /\ response.homeworks = <<>>)
        => /\ calls = <<>>
           /\ rendered = <<>>
           /\ timestamp = ts0
           /\ last_message = last0
           /\ pc \in {"validate", "sleep"}

\* C6 witness: such an iteration, with a current_date that differs from
\* timestamp, has reached the sleep.
C6_Witness ==
    /\ pc = "sleep"
    /\ ValidResponse
    /\ response.homeworks = <<>>
    /\ response.has_current_date
    /\ response.current_date # ts0
    /\ last0 # None

\* C7 as stated, on the iterations in which nothing raises: whenever
\* homeworks[0] formats, timestamp ends the iteration as current_date when
\* the response carries one and unchanged when not.
C7_TimestampFollowsCurrentDate ==
    (pc = "sleep" /\ FormattedOk /\ ~Caught)
        => timestamp = IF response.has_current_date
                       THEN response.current_date ELSE ts0

\* C7 amended: the request of an iteration carries the timestamp the
\* iteration began with; an iteration that formats homeworks[0] into a
\* message that differs from last_message and whose send_message call
\* returns ends with timestamp = current_date when the response carries one
\* and unchanged when not; when the message equals last_message, or
\* send_message raises, timestamp is unchanged.
C7_TimestampFollowsCurrentDateWhenSent ==
    /\ from_date # NoRequest => from_date = ts0
    /\ (pc = "sleep" /\ FormattedOk)
         => timestamp =
              IF rendered[1] # last0 /\ "notify" \notin Range(raisedAt)
              THEN (IF response.has_current_date
                    THEN response.current_date ELSE ts0)
              ELSE ts0

\* C7 witness: a second iteration whose request carries the current_date of
\* the first, and which itself ends with a new timestamp.
C7_Witness ==
    /\ pc = "sleep"
    /\ FormattedOk
    /\ from_date = 1
    /\ prevCalls # <<>>
    /\ timestamp = 2
    /\ outcomes = <<"ok">>

\* C8: when a token is unset or empty the process exits before the loop: no
\* request and no send_message call is ever made; with all three present
\* the process does not exit at startup and enters the loop.
C8_MissingTokenNeverEntersLoop ==
    /\ (\E name \in TokenNames : env[name] \in {None, ""})
         => /\ pc \in {"start", "exited"}
            /\ from_date = NoRequest
            /\ calls = <<>>
            /\ prevCalls = <<>>
            /\ delivered = None
    /\ (\A name \in TokenNames : env[name] \notin {None, ""})
         => pc # "exited"

\* C8 witness: the process has exited on an empty chat id, the other two
\* tokens being present.
C8_Witness ==
    /\ pc = "exited"
    /\ env["TELEGRAM_CHAT_ID"] = ""
    /\ env["PRACTICUM_TOKEN"] = "token"
    /\ env["TELEGRAM_TOKEN"] = "token"

\* C9: an iteration that ends with an error caught by main's except leaves
\* timestamp unchanged, renders 'Сбой в работе программы: {error}' and passes
\* it to send_message once when it differs from last_message, never when it
\* equals it.
C9_CaughtErrorReportedOnce ==
    (IterationOver /\ Caught)
        => /\ timestamp = ts0
           /\ message = "Sboi v rabote programmy: " \o error
           /\ rendered[Len(rendered)] = message
           /\ Count(message, calls) = IF message # last0 THEN 1 ELSE 0

\* C9 witness: the body was a list; the failure message went to send_message
\* once, and the iteration is at the sleep.
C9_Witness ==
    /\ pc = "sleep"
    /\ response.t = "list"
    /\ raisedAt = <<"validate">>
    /\ calls = <<message>>
    /\ last0 # None

\* C9 second case, reached as well: the same failure message as last time is
\* not sent again.
C9_WitnessDedup ==
    /\ pc = "sleep"
    /\ Caught
    /\ message = last0
    /\ calls = <<>>

\* The request of the current iteration has been answered.
Answered == reply.kind # "none"

\* get_api_answer raised in the current iteration.
FetchRaised == Caught /\ raisedAt[1] = "fetch"

\* C10 as stated: get_api_answer raises exactly on a transport failure or a
\* status code outside 200-299, and returns the decoded body otherwise.
C10_RaisesExactlyOutside2xx ==
    Answered
        => /\ FetchRaised <=> (\/ reply.kind = "RequestException"
                               \/ reply.status_code \notin 200..299)
           /\ ~FetchRaised => response = reply.body

\* C10 amended: get_api_answer raises exactly on a transport failure, a
\* status code other than 200, or a body that does not decode; on status 200
\* with a decodable body it returns the decoded body.
C10_RaisesExactlyOutside200 ==
    Answered
        => /\ FetchRaised <=> (\/ reply.kind = "RequestException"
                               \/ reply.status_code # 200
                               \/ ~reply.decodable)
           /\ ~FetchRaised => (response = reply.body /\ response.t # "none")

\* C10 witness: a 201 with a decodable body was answered and get_api_answer
\* raised.
C10_Witness ==
    /\ Answered
    /\ reply.status_code = 201
    /\ reply.decodable
    /\ FetchRaised
    /\ error = "Endpoint " \o ENDPOINT \o " vernul kod 201"

\* check_response has run on the response of the current iteration.
Validated == response.t # "none" /\ pc # "validate"

\* check_response raised in the current iteration.
ValidateRaised == Caught /\ raisedAt[1] = "validate"

\* C11: check_response tests, in this order, that the payload is a dict, that
\* it has the key homeworks and that the value under it is a list; it raises
\* at the first test that fails and otherwise returns the list as it is.
C11_CheckResponseInOrder ==
    Validated
        => IF response.t # "dict"
           THEN /\ ValidateRaised
                /\ error = "Otvet API ne yavlyaetsya slovarem"
           ELSE IF ~response.has_homeworks
           THEN /\ ValidateRaised
                /\ error = "'Klyuch \"homeworks\" otsutstvuet v otvete API'"
           ELSE IF ~response.homeworks_islist
           THEN /\ ValidateRaised
                /\ error = "Otvet API po klyuchu \"homeworks\" ne yavlyaetsya spiskom"
           ELSE /\ ~ValidateRaised
                /\ homeworks = response.homeworks

\* C11 witness: a list of three records, the last two malformed or of unknown
\* status, came back from check_response as it was.
C11_Witness ==
    /\ Validated
    /\ ~Caught
    /\ Len(homeworks) = 3
    /\ homeworks = response.homeworks
    /\ homeworks[3] = NotADict

\* C11 second case, reached as well: the body [] is refused as not a dict.
C11_WitnessNotDict ==
    /\ Validated
    /\ response.t = "list"
    /\ error = "Otvet API ne yavlyaetsya slovarem"

\* parse_status has run on homeworks[0] in the current iteration.
Formatted == homeworks # <<>> /\ pc # "format"

\* parse_status raised in the current iteration.
FormatRaised == Caught /\ raisedAt[1] = "format"

\* homeworks[0] is a dict with both keys.
HasBothFields(h) == h.isdict /\ h.has_name /\ h.has_status

\* C12: for a record with homework_name and a status among approved,
\* reviewing, rejected, parse_status returns
\* 'Изменился статус проверки работы "{homework_name}". {verdict}' with the
\* verdict of that status, and the three verdicts are three texts.
C12_KnownStatusFormatsExactly ==
    /\ (Formatted /\ HasBothFields(homeworks[1])
          /\ homeworks[1].status \in {"approved", "reviewing", "rejected"})
         => /\ ~FormatRaised
            /\ rendered # <<>>
            /\ rendered[1] =
                 "Izmenilsya status proverki raboty \""
                 \o homeworks[1].homework_name \o "\". "
                 \o (CASE homeworks[1].status = "approved" ->
                            "Rabota proverena: revyueru vsyo ponravilos. Ura!"
                       [] homeworks[1].status = "reviewing" ->
                            "Rabota vzyata na proverku revyuerom."
                       [] homeworks[1].status = "rejected" ->
                            "Rabota proverena: u revyuera est zamechaniya.")
    /\ DOMAIN HOMEWORK_VERDICTS = {"approved", "reviewing", "rejected"}
    /\ Cardinality({HOMEWORK_VERDICTS[st] : st \in DOMAIN HOMEWORK_VERDICTS}) = 3

\* C12 witness: the record diff2/approved was formatted, its message went to
\* send_message and the iteration is at the sleep.
C12_Witness ==
    /\ Formatted
    /\ homeworks[1].homework_name = "diff2"
    /\ calls = <<"Izmenilsya status proverki raboty \"diff2\". Rabota proverena: revyueru vsyo ponravilos. Ura!">>
    /\ pc = "sleep"

C13_WitnessUnknownStatus ==
    /\ Formatted
    /\ HasBothFields(homeworks[1])
    /\ error = "Neizvestnyi status domashnei raboty: pending"
    /\ response.has_current_date
    /\ response.current_date # ts0
    /\ pc = "sleep"

\* main is inside an iteration: its request has been sent and the sleep
\* that ends it has not been taken, or an exception has left main.
InIteration ==
    pc \in {"validate", "format", "notify", "except", "notify_failure",
            "sleep", "crashed"}

\* C14: iterations follow one another with one sleep of RETRY_PERIOD between
\* them, however the iteration ended: when a request is about to be sent,
\* exactly one sleep of RETRY_PERIOD lies between it and the request before
\* (none before the first), nothing of the iteration before is still
\* running, and inside an iteration exactly one request has been sent and
\* no sleep taken.
C14_OneSleepBetweenFetches ==
    /\ RETRY_PERIOD = 600
    /\ pc = "fetch"
         => /\ slept = IF fetched THEN <<RETRY_PERIOD>> ELSE <<>>
            /\ from_date = NoRequest
            /\ calls = <<>>
            /\ Len(outcomes) = 0
    /\ InIteration
         => /\ slept = <<>>
            /\ fetched
            /\ from_date # NoRequest
            /\ Len(outcomes) = Len(calls)

\* C14 witness: a deduplicated iteration has been followed by one sleep and
\* the next request is about to be sent.
C14_Witness ==
    /\ pc = "fetch"
    /\ fetched
    /\ slept = <<600>>
    /\ prevRendered = <<last_message>>
    /\ prevCalls = <<>>

\* C14 second case, reached as well: the same after an iteration that ended
\* in a caught failure whose message was sent.
C14_WitnessAfterFailure ==
    /\ pc = "fetch"
    /\ slept = <<600>>
    /\ prevCalls = <<"Sboi v rabote programmy: Endpoint " \o ENDPOINT \o " vernul kod 503">>

\* C15: an iteration sends exactly one request and calls send_message at
\* most once, with a status message or with a failure message, never with
\* both, also when the failure arises while the status message is sent.
C15_OneFetchAtMostOneCall ==
    InIteration => (from_date # NoRequest /\ Len(calls) <= 1)

\* What an iteration leaves behind when its valid response has first record
\* head and current_date (has_cd, cd), it began with timestamp ts and
\* last_message last, and bot.send_message did outs on the calls made:
\* computed from these alone, no later record being looked at.
EndOfIterationFromHead(head, has_cd, cd, ts, last, outs) ==
    LET r == parse_status(head)
        Failure(text, before, k) ==
            LET f == "Sboi v rabote programmy: " \o text
            IN  IF f = last
                THEN [calls |-> before, timestamp |-> ts, last_message |-> last]
                ELSE [calls |-> Append(before, f), timestamp |-> ts,
                      last_message |->
                          IF send_message(f, outs[k]).raised THEN last ELSE f]
    IN  IF r.raised
        THEN Failure(r.error, <<>>, 1)
        ELSE IF r.value = last
        THEN [calls |-> <<>>, timestamp |-> ts, last_message |-> last]
        ELSE LET sent == send_message(r.value, outs[1])
             IN  IF sent.raised
                 THEN Failure(sent.error, <<r.value>>, 2)
                 ELSE [calls |-> <<r.value>>,
                       timestamp |-> IF has_cd THEN cd ELSE ts,
                       last_message |-> r.value]

\* C16: only homeworks[0] is consulted: the calls made to send_message and
\* the session state an iteration ends with are a function of homeworks[0],
\* current_date, the state the iteration began with and what the sends did,
\* so responses that differ only behind the first record end alike.
C16_OnlyFirstRecordCounts ==
    (IterationOver /\ ValidResponse /\ response.homeworks # <<>>)
        => LET end == EndOfIterationFromHead(
                          response.homeworks[1], response.has_current_date,
                          response.current_date, ts0, last0, outcomes)
           IN  /\ calls = end.calls
               /\ timestamp = end.timestamp
               /\ last_message = end.last_message

\* C16 witness: a response of three records, the first one valid, the other
\* two of another homework and malformed, ended with the message of the first
\* sent and timestamp moved.
C16_Witness ==
    /\ pc = "sleep"
    /\ ValidResponse
    /\ Len(response.homeworks) = 3
    /\ response.homeworks[2].status = "rejected"
    /\ response.homeworks[3] = NotADict
    /\ calls = <<"Izmenilsya status proverki raboty \"diff1\". Rabota proverena: revyueru vsyo ponravilos. Ura!">>
    /\ timestamp # ts0

\* C16 second case, reached as well: the first record is refused although a
\* later record is valid.
C16_WitnessBadHead ==
    /\ pc = "sleep"
    /\ ValidResponse
    /\ Len(response.homeworks) = 3
    /\ response.homeworks[1] = NotADict
    /\ response.homeworks[2].status = "rejected"
    /\ Len(calls) = 1

\* C17: an iteration whose status message equals last_message calls
\* send_message never and leaves timestamp alone even when the response
\* carries another current_date; so timestamp moves only in an iteration
\* that passed a status message to send_message.
C17_DedupLeavesTimestamp ==
    /\ (FormattedOk /\ rendered[1] = last0)
         => /\ calls = <<>>
            /\ timestamp = ts0
            /\ pc = "sleep"
    /\ timestamp # ts0
         => /\ FormattedOk
            /\ calls = <<rendered[1]>>
            /\ rendered[1] # last0

\* C17 witness: a deduplicated iteration whose response carried a
\* current_date other than timestamp is at the sleep.
C17_Witness ==
    /\ pc = "sleep"
    /\ FormattedOk
    /\ rendered = <<last0>>
    /\ response.has_current_date
    /\ response.current_date # timestamp

\* C18: the comparison is with the one text recorded last: across iterations
\* send_message is called with a rendered message exactly when the message
\* differs from last_message at that moment, so a message sent before another
\* one is sent again when it comes back.
C18_CalledIffDiffersFromLast ==
    /\ IterationOver
         => calls = SelectSeq(rendered, LAMBDA m : m # last0)
    /\ \A i \in 1..Len(calls) : calls[i] # last0 /\ calls[i] = rendered[i]
    /\ last_message # last0 => (pc = "sleep" /\ last_message = calls[Len(calls)])

\* C18 witness: the status message A was delivered, then a failure message
\* was sent, and now A has been rendered again and passed to send_message
\* again (this time it was not delivered).
C18_Witness ==
    /\ pc = "sleep"
    /\ FormattedOk
    /\ calls = <<rendered[1]>>
    /\ outcomes = <<"RequestException">>
    /\ delivered = rendered[1]
    /\ Len(prevCalls) = 1
    /\ prevCalls[1] = last0
    /\ last0 = "Sboi v rabote programmy: Oshibka pri zaprose k API: timed out"

\* C19: at the sleep, last_message is unset and send_message has not been
\* called since startup, or it is the text of the last send_message call that
\* returned, delivered or not; once set it is never unset again.
C19_LastMessageIsLastReturned ==
    /\ [](pc = "sleep"
            => IF called
               THEN last_message # None /\ last_message = returned
               ELSE last_message = None /\ returned = None)
    /\ [][last_message # None => last_message' # None]_vars

\* C19 witness: at the sleep last_message is a text whose delivery failed,
\* while the chat last received another text.
C19_Witness ==
    /\ pc = "sleep"
    /\ called
    /\ outcomes = <<"ApiException">>
    /\ last_message = calls[1]
    /\ delivered # None
    /\ delivered # last_message

====
